---------------------------- MODULE Spec2Model ----------------------------
(***************************************************************************)
(* Model of include/scripts/extra_scripts/basic_resize.py: the kernel      *)
(* registry _KERNELS, the lookup _pick_resizer and the two entry points    *)
(* scale() and pixel().                                                    *)
(*                                                                         *)
(* A Python str is a sequence of one-character strings, so that            *)
(* str.lower(), ', '.join() and the f-string of the error message are      *)
(* computed character by character.  A float scale factor is the dyadic    *)
(* rational num / 2^ScaleBits: such a factor is an exact binary float and  *)
(* its product with a small int is exact, so int(clip.width * scale) is    *)
(* the truncation of the exact product.  An optional value (None or x) is  *)
(* the empty tuple or <<x>>.  The resize kernels belong to VapourSynth: an *)
(* invocation is recorded with its arguments and its result is the opaque  *)
(* node built from them.                                                   *)
(***************************************************************************)
EXTENDS Integers, Sequences, FiniteSets, TLC

VARIABLES
    _KERNELS,   \* the module-level dict _KERNELS, in insertion order
    clip,       \* the vs.VideoNode the caller holds: width, height, format
    call,       \* the arguments of the call that ran last
    w,          \* the local w of the last call's frame (None if it has none)
    h,          \* the local h of the last call's frame (None if it has none)
    invoked,    \* the kernel invocations the last call made, in order
    outcome,    \* how the last call ended: a returned node or a raised error
    nCalls,     \* calls made so far
    nRaised,    \* calls that ended in a ValueError raised by this module
    nInvoked    \* kernel invocations made so far

vars == <<_KERNELS, clip, call, w, h, invoked, outcome, nCalls, nRaised, nInvoked>>

-----------------------------------------------------------------------------
(* Bounds of the model *)

MaxDim == 4         \* source widths and heights 0..MaxDim (and width 101)
MaxSub == 2         \* subsampling_w, subsampling_h in 0..MaxSub
ScaleBits == 1      \* scale factors are multiples of 1 / 2^ScaleBits
MaxScaleNum == 5    \* largest numerator of a scale factor
MaxPixel == 3       \* largest width/height handed to pixel()
MaxUpper == 1       \* longest upper-cased run in a generated kernel spelling
MaxCalls == 2       \* calls in one behaviour of Spec
MaxWideCalls == 1   \* calls in one behaviour of the wide-input specifications

-----------------------------------------------------------------------------
(* Python values *)

None == <<>>
Some(x) == <<x>>

max(a, b) == IF a >= b THEN a ELSE b

\* int(x) of the float x = n / d (d > 0): truncation toward zero
int(n, d) == IF n >= 0 THEN n \div d ELSE -((-n) \div d)

\* a << k
Shl(a, k) == a * (2 ^ k)

UpperChars == <<"A","B","C","D","E","F","G","H","I","J","K","L","M",
                "N","O","P","Q","R","S","T","U","V","W","X","Y","Z">>
LowerChars == <<"a","b","c","d","e","f","g","h","i","j","k","l","m",
                "n","o","p","q","r","s","t","u","v","w","x","y","z">>

\* str.lower() on one character
lower_char(c) ==
    IF \E i \in 1..Len(UpperChars) : UpperChars[i] = c
    THEN LowerChars[CHOOSE i \in 1..Len(UpperChars) : UpperChars[i] = c]
    ELSE c

\* str.lower()
lower(s) == [i \in 1..Len(s) |-> lower_char(s[i])]

\* sep.join(strs)
RECURSIVE join(_, _)
join(sep, strs) ==
    IF Len(strs) = 0 THEN <<>>
    ELSE IF Len(strs) = 1 THEN strs[1]
    ELSE strs[1] \o sep \o join(sep, Tail(strs))

-----------------------------------------------------------------------------
(* The registry *)

point    == <<"p","o","i","n","t">>
bilinear == <<"b","i","l","i","n","e","a","r">>
bicubic  == <<"b","i","c","u","b","i","c">>
lanczos  == <<"l","a","n","c","z","o","s">>
spline16 == <<"s","p","l","i","n","e","1","6">>
spline36 == <<"s","p","l","i","n","e","3","6">>
spline64 == <<"s","p","l","i","n","e","6","4">>

\* _KERNELS as built at import: (key, value) in insertion order
KernelTable ==
    << [key |-> point,    op |-> "core.resize.Point"],
       [key |-> bilinear, op |-> "core.resize.Bilinear"],
       [key |-> bicubic,  op |-> "core.resize.Bicubic"],
       [key |-> lanczos,  op |-> "core.resize.Lanczos"],
       [key |-> spline16, op |-> "core.resize.Spline16"],
       [key |-> spline36, op |-> "core.resize.Spline36"],
       [key |-> spline64, op |-> "core.resize.Spline64"] >>

\* iterating a dict yields its keys in insertion order
Keys(d) == [i \in 1..Len(d) |-> d[i].key]

\* key in d
HasKey(d, k) == \E i \in 1..Len(d) : d[i].key = k

\* d[k], for a key that is present
GetItem(d, k) == d[CHOOSE i \in 1..Len(d) : d[i].key = k].op

ScaleErrorMsg ==
    <<"s","c","a","l","e"," ","m","u","s","t"," ","b","e"," ",">"," ","0">>

\* f"Unknown kernel '{kernel}'. Choose from: {', '.join(_KERNELS)}"
UnknownKernelMsg(d, kernel) ==
    <<"U","n","k","n","o","w","n"," ","k","e","r","n","e","l"," ","'">>
    \o kernel
    \o <<"'","."," ","C","h","o","o","s","e"," ","f","r","o","m",":"," ">>
    \o join(<<",", " ">>, Keys(d))

\* _pick_resizer(kernel) indexing _KERNELS with the name as written
_pick_resizer_as_written(d, kernel) ==
    IF HasKey(d, kernel)
    THEN [ok |-> TRUE, op |-> GetItem(d, kernel), msg |-> <<>>]
    ELSE [ok |-> FALSE, op |-> "", msg |-> UnknownKernelMsg(d, kernel)]

\* _pick_resizer(kernel) falling back to bilinear for an unknown name
_pick_resizer_default(d, kernel) ==
    IF HasKey(d, lower(kernel))
    THEN [ok |-> TRUE, op |-> GetItem(d, lower(kernel)), msg |-> <<>>]
    ELSE [ok |-> TRUE, op |-> GetItem(d, bilinear), msg |-> <<>>]

\* _pick_resizer(kernel): the operation under kernel.lower(), or the
\* ValueError raised for the KeyError
_pick_resizer(d, kernel) ==
    IF HasKey(d, lower(kernel))
    THEN [ok |-> TRUE, op |-> GetItem(d, lower(kernel)), msg |-> <<>>]
    ELSE [ok |-> FALSE, op |-> "", msg |-> UnknownKernelMsg(d, kernel)]

-----------------------------------------------------------------------------
(* scale(): the size computation *)

\* scale <= 0 with the strict comparison
scale_rejected_strict(s) == s.num < 0

\* if scale <= 0
scale_rejected(s) == s.num <= 0

\* max(1, round(dim * scale))
provisional_rounded(dim, s) == max(1, int(2 * dim * s.num + s.den, 2 * s.den))

\* max(1, int(dim * scale))
provisional(dim, s) == max(1, int(dim * s.num, s.den))

\* 2 << subsampling
mod_of_doubled(subsampling) == Shl(2, subsampling)

\* 1 << fmt.subsampling_w, 1 << fmt.subsampling_h
mod_of(subsampling) == Shl(1, subsampling)

\* rounding up to the next multiple of mod
align_up(v, mod) ==
    IF mod > 1 THEN max(mod, v + ((mod - (v % mod)) % mod)) ELSE v

\* if mod > 1: v = max(mod, v - (v % mod))
align(v, mod) ==
    IF mod > 1 THEN max(mod, v - (v % mod)) ELSE v

\* the final w of scale(clip, scale): lines 25, 29-34
target_w(c, s) ==
    IF c.format # None
    THEN align(provisional(c.width, s), mod_of(c.format[1].subsampling_w))
    ELSE provisional(c.width, s)

\* the final h of scale(clip, scale): lines 26, 29-36
target_h(c, s) ==
    IF c.format # None
    THEN align(provisional(c.height, s), mod_of(c.format[1].subsampling_h))
    ELSE provisional(c.height, s)

-----------------------------------------------------------------------------
(* The calls *)

\* resizer(clip, width=..., height=...): the invocation as VapourSynth sees it
Invocation(op, c, width, height) ==
    [op |-> op, clip |-> c, width |-> width, height |-> height]

\* the node a kernel invocation returns
Node(inv) == [node |-> inv]

Returned(value) == [kind |-> "return", exc |-> "", msg |-> <<>>, value |-> Some(value)]
Raised(msg) == [kind |-> "raise", exc |-> "ValueError", msg |-> msg, value |-> None]

ScaleCall(s, kernel) ==
    [fn |-> "scale", scale |-> Some(s), kernel |-> kernel, width |-> None, height |-> None]
PixelCall(width, height, kernel) ==
    [fn |-> "pixel", scale |-> None, kernel |-> kernel, width |-> width, height |-> height]

\* the bookkeeping of one finished call
Finish(c, inv, out) ==
    /\ call' = c
    /\ invoked' = inv
    /\ outcome' = out
    /\ nCalls' = nCalls + 1
    /\ nRaised' = nRaised + (IF out.kind = "raise" THEN 1 ELSE 0)
    /\ nInvoked' = nInvoked + Len(inv)

\* scale() with the kernel looked up before anything else
scale_lookup_first(s, kernel) ==
    /\ LET r == _pick_resizer(_KERNELS, kernel)
           tw == target_w(clip, s)
           th == target_h(clip, s)
           inv == Invocation(r.op, clip, Some(tw), Some(th))
       IN  IF ~r.ok
           THEN /\ w' = None /\ h' = None
                /\ Finish(ScaleCall(s, kernel), <<>>, Raised(r.msg))
           ELSE IF scale_rejected(s)
           THEN /\ w' = None /\ h' = None
                /\ Finish(ScaleCall(s, kernel), <<>>, Raised(ScaleErrorMsg))
           ELSE /\ w' = Some(tw) /\ h' = Some(th)
                /\ Finish(ScaleCall(s, kernel), <<inv>>, Returned(Node(inv)))
    /\ UNCHANGED <<_KERNELS, clip>>

\* scale() with the scale check after the kernel call
scale_late_check(s, kernel) ==
    /\ LET r == _pick_resizer(_KERNELS, kernel)
           tw == target_w(clip, s)
           th == target_h(clip, s)
           inv == Invocation(r.op, clip, Some(tw), Some(th))
       IN  /\ w' = Some(tw) /\ h' = Some(th)
           /\ IF ~r.ok
              THEN Finish(ScaleCall(s, kernel), <<>>, Raised(r.msg))
              ELSE IF scale_rejected(s)
              THEN Finish(ScaleCall(s, kernel), <<inv>>, Raised(ScaleErrorMsg))
              ELSE Finish(ScaleCall(s, kernel), <<inv>>, Returned(Node(inv)))
    /\ UNCHANGED <<_KERNELS, clip>>

\* scale() remembering the spelling it resolved in the registry
scale_caching(s, kernel) ==
    /\ LET r == _pick_resizer(_KERNELS, kernel)
           tw == target_w(clip, s)
           th == target_h(clip, s)
           inv == Invocation(r.op, clip, Some(tw), Some(th))
       IN  IF scale_rejected(s)
           THEN /\ w' = None /\ h' = None
                /\ _KERNELS' = _KERNELS
                /\ Finish(ScaleCall(s, kernel), <<>>, Raised(ScaleErrorMsg))
           ELSE /\ w' = Some(tw) /\ h' = Some(th)
                /\ IF r.ok
                   THEN /\ _KERNELS' = IF HasKey(_KERNELS, kernel) THEN _KERNELS
                                      ELSE Append(_KERNELS, [key |-> kernel, op |-> r.op])
                        /\ Finish(ScaleCall(s, kernel), <<inv>>, Returned(Node(inv)))
                   ELSE /\ _KERNELS' = _KERNELS
                        /\ Finish(ScaleCall(s, kernel), <<>>, Raised(r.msg))
    /\ UNCHANGED clip

\* scale(clip, scale, kernel)
scale(s, kernel) ==
    /\ LET r == _pick_resizer(_KERNELS, kernel)
           tw == target_w(clip, s)
           th == target_h(clip, s)
           inv == Invocation(r.op, clip, Some(tw), Some(th))
       IN  IF scale_rejected(s)
           THEN /\ w' = None /\ h' = None
                /\ Finish(ScaleCall(s, kernel), <<>>, Raised(ScaleErrorMsg))
           ELSE /\ w' = Some(tw) /\ h' = Some(th)
                /\ IF r.ok
                   THEN Finish(ScaleCall(s, kernel), <<inv>>, Returned(Node(inv)))
                   ELSE Finish(ScaleCall(s, kernel), <<>>, Raised(r.msg))
    /\ UNCHANGED <<_KERNELS, clip>>

\* pixel() clamping the sizes it is given to at least 1
pixel_clamped(width, height, kernel) ==
    /\ LET r == _pick_resizer(_KERNELS, kernel)
           cw == IF width = None THEN None ELSE Some(max(1, width[1]))
           ch == IF height = None THEN None ELSE Some(max(1, height[1]))
           inv == Invocation(r.op, clip, cw, ch)
       IN  IF r.ok
           THEN Finish(PixelCall(width, height, kernel), <<inv>>, Returned(Node(inv)))
           ELSE Finish(PixelCall(width, height, kernel), <<>>, Raised(r.msg))
    /\ w' = None /\ h' = None
    /\ UNCHANGED <<_KERNELS, clip>>

\* pixel(clip, width, height, kernel)
pixel(width, height, kernel) ==
    /\ LET r == _pick_resizer(_KERNELS, kernel)
           inv == Invocation(r.op, clip, width, height)
       IN  IF r.ok
           THEN Finish(PixelCall(width, height, kernel), <<inv>>, Returned(Node(inv)))
           ELSE Finish(PixelCall(width, height, kernel), <<>>, Raised(r.msg))
    /\ w' = None /\ h' = None
    /\ UNCHANGED <<_KERNELS, clip>>

-----------------------------------------------------------------------------
(* Inputs *)

upper_char(c) ==
    IF \E i \in 1..Len(LowerChars) : LowerChars[i] = c
    THEN UpperChars[CHOOSE i \in 1..Len(LowerChars) : LowerChars[i] = c]
    ELSE c

\* the name with the positions in U upper-cased
Spell(name, U) == [i \in 1..Len(name) |-> IF i \in U THEN upper_char(name[i]) ELSE name[i]]

SupportedNames == {point, bilinear, bicubic, lanczos, spline16, spline36, spline64}

nearest == <<"n","e","a","r","e","s","t">>

UnknownNames ==
    { nearest,
      Spell(nearest, 1..Len(nearest)),
      <<>>,
      <<"s","p","l","i","n","e">>,
      <<"p","o","i","n","t"," ">>,
      <<"G","a","u","s","s">>,
      <<"b","i","l","i","n","e","a","r","2">> }

\* the runs of positions of a name that a spelling upper-cases: none, every
\* run of at most MaxUpper letters, and the whole name
Runs(name) ==
    { {} , 1..Len(name) }
    \cup { U \in { i..j : i \in 1..Len(name), j \in 1..Len(name) } :
             Cardinality(U) <= MaxUpper }

\* the kernel arguments of the lookup specification
Spellings ==
    UNION { { Spell(n, U) : U \in Runs(n) } : n \in SupportedNames }
    \cup UnknownNames

\* the kernel arguments of the other specifications
Kernels == { bilinear, Spell(lanczos, {1}), nearest }

Formats == [subsampling_w : 0..MaxSub, subsampling_h : 0..MaxSub]

Clips ==
    [ width  : (0..MaxDim) \cup {101},
      height : 0..MaxDim,
      format : {None} \cup {Some(f) : f \in Formats} ]

Scales == { [num |-> n, den |-> 2 ^ ScaleBits] : n \in (-2)..MaxScaleNum }

PixelDims == {None} \cup {Some(n) : n \in (-1)..MaxPixel}

\* the clips of the specifications that do not vary the source size
FewClips ==
    { c \in Clips :
        /\ c.width = 101
        /\ c.height = MaxDim
        /\ c.format \in { None,
                          Some([subsampling_w |-> 0, subsampling_h |-> 0]),
                          Some([subsampling_w |-> 1, subsampling_h |-> 1]) } }

\* a negative, a zero and two positive factors
FewScales == { s \in Scales : s.num \in {-1, 0, 1, s.den} }

FewPixelDims == {None, Some(-1), Some(MaxPixel)}

-----------------------------------------------------------------------------
(* Specifications *)

NoCall == [fn |-> "none", scale |-> None, kernel |-> <<>>, width |-> None, height |-> None]
NoOutcome == [kind |-> "none", exc |-> "", msg |-> <<>>, value |-> None]

InitOver(CS) ==
    /\ _KERNELS = KernelTable
    /\ clip \in CS
    /\ call = NoCall
    /\ w = None
    /\ h = None
    /\ invoked = <<>>
    /\ outcome = NoOutcome
    /\ nCalls = 0
    /\ nRaised = 0
    /\ nInvoked = 0

\* sequences of calls
Init == InitOver(FewClips)

Next ==
    \/ \E s \in FewScales, k \in Kernels :
          nCalls < MaxCalls /\ scale(s, k)
    \/ \E pw \in FewPixelDims, ph \in FewPixelDims, k \in Kernels :
          nCalls < MaxCalls /\ pixel(pw, ph, k)

Spec == Init /\ [][Next]_vars

\* scale() over every clip and every scale factor
InitSize == InitOver(Clips)

NextSize ==
    \E s \in Scales, k \in Kernels :
        nCalls < MaxWideCalls /\ scale(s, k)

SpecSize == InitSize /\ [][NextSize]_vars

\* pixel() over every width and height
InitPixel == InitOver(FewClips)

NextPixel ==
    \E pw \in PixelDims, ph \in PixelDims, k \in Kernels :
        nCalls < MaxWideCalls /\ pixel(pw, ph, k)

SpecPixel == InitPixel /\ [][NextPixel]_vars

\* scale() and pixel() over every kernel spelling
InitLookup == InitOver({ c \in FewClips : c.format = None })

NextLookup ==
    \/ \E s \in FewScales, k \in Spellings :
          nCalls < MaxWideCalls /\ scale(s, k)
    \/ \E k \in Spellings :
          nCalls < MaxWideCalls /\ pixel(None, Some(MaxPixel), k)

SpecLookup == InitLookup /\ [][NextLookup]_vars

-----------------------------------------------------------------------------
(* Vocabulary of the properties, stated without the operators of the model *)

\* k spells name up to the case of its letters
CaseMatch(k, name) ==
    /\ Len(k) = Len(name)
    /\ \A i \in 1..Len(name) :
          \/ k[i] = name[i]
          \/ \E j \in 1..Len(LowerChars) : LowerChars[j] = name[i] /\ UpperChars[j] = k[i]

\* the operation each supported name stands for
Registered ==
    { <<point, "core.resize.Point">>, <<bilinear, "core.resize.Bilinear">>,
      <<bicubic, "core.resize.Bicubic">>, <<lanczos, "core.resize.Lanczos">>,
      <<spline16, "core.resize.Spline16">>, <<spline36, "core.resize.Spline36">>,
      <<spline64, "core.resize.Spline64">> }

Supported(k) == \E r \in Registered : CaseMatch(k, r[1])

\* t occurs in s
Contains(s, t) == \E i \in 0..(Len(s) - Len(t)) : SubSeq(s, i + 1, i + Len(t)) = t

StartsWith(s, t) == Len(s) >= Len(t) /\ SubSeq(s, 1, Len(t)) = t

\* q = floor(n / d), d > 0
IsFloor(q, n, d) == q * d <= n /\ n < (q + 1) * d

\* max(1, floor(dim * s)) for a scale factor s > 0 and dim >= 0
FloorMin1(dim, s) ==
    LET q == CHOOSE x \in 0..(dim * s.num) : IsFloor(x, dim * s.num, s.den)
    IN  IF q < 1 THEN 1 ELSE q

\* d is a multiple of m, at least m, and the largest multiple of m that is
\* <= p when p >= m
AlignedTo(d, m, p) ==
    /\ d % m = 0
    /\ d >= m
    /\ p >= m => (d <= p /\ p < d + m)

IsScaleCall == call.fn = "scale"
IsPixelCall == call.fn = "pixel"
ScaleArg == call.scale[1]
RaisedValueError == outcome.kind = "raise" /\ outcome.exc = "ValueError"
UnknownKernelPrefix == <<"U","n","k","n","o","w","n"," ","k","e","r","n","e","l">>

-----------------------------------------------------------------------------
(* C1: a scale() call with scale <= 0 ends in a ValueError and invokes no
   kernel, whatever the clip and whatever the kernel argument. *)
C1_NonPositiveScaleRaises ==
    (IsScaleCall /\ ScaleArg.num <= 0)
        => /\ RaisedValueError
           /\ invoked = <<>>

\* scale = 0 with a supported kernel, and scale < 0 is covered by the inputs
C1_Witness ==
    /\ IsScaleCall /\ ScaleArg.num = 0 /\ Supported(call.kernel)
    /\ call.kernel # lower(call.kernel)
    /\ RaisedValueError /\ invoked = <<>>

(* C2: for a kernel name whose lower-case form is none of the seven supported
   names, lookup (from scale() with scale > 0, or from pixel()) raises a
   ValueError whose message names the rejected kernel and lists the seven
   supported names, and no kernel is invoked. *)
C2_UnknownKernelRaises ==
    ( /\ IsPixelCall \/ (IsScaleCall /\ ScaleArg.num > 0)
      /\ ~ Supported(call.kernel) )
        => /\ RaisedValueError
           /\ Contains(outcome.msg, <<"'">> \o call.kernel \o <<"'">>)
           /\ \A r \in Registered : Contains(outcome.msg, r[1])
           /\ invoked = <<>>

C2_Witness ==
    /\ IsScaleCall /\ ScaleArg.num > 0
    /\ call.kernel = <<"G","a","u","s","s">>
    /\ RaisedValueError
    /\ Contains(outcome.msg, <<"'","G","a","u","s","s","'">>)
    /\ Contains(outcome.msg, spline64)

(* C3: for each supported name in any mix of upper and lower case, lookup
   succeeds and selects the operation registered under the lower-case name,
   so spellings that differ only in case select the same operation. *)
C3_CaseInsensitiveLookup ==
    \A r \in Registered :
        ( /\ IsPixelCall \/ (IsScaleCall /\ ScaleArg.num > 0)
          /\ CaseMatch(call.kernel, r[1]) )
            => /\ outcome.kind = "return"
               /\ Len(invoked) = 1
               /\ invoked[1].op = r[2]

C3_Witness ==
    /\ IsPixelCall
    /\ call.kernel = <<"s","p","l","i","n","E","1","6">>
    /\ outcome.kind = "return"
    /\ invoked[1].op = "core.resize.Spline16"

(* C4: for a clip with no chroma subsampling (no format, or factor 0 on both
   axes) and scale > 0, scale() invokes the kernel with
   width = max(1, floor(W * s)) and height = max(1, floor(H * s)). *)
C4_UnsubsampledSize ==
    ( /\ IsScaleCall /\ ScaleArg.num > 0 /\ Supported(call.kernel)
      /\ \/ clip.format = None
         \/ clip.format[1].subsampling_w = 0 /\ clip.format[1].subsampling_h = 0 )
        => /\ Len(invoked) = 1
           /\ invoked[1].width = Some(FloorMin1(clip.width, ScaleArg))
           /\ invoked[1].height = Some(FloorMin1(clip.height, ScaleArg))

\* 3 * 1.5 = 4.5 is floored to 4, and 0 * 1.5 = 0 is raised to 1
C4_Witness ==
    /\ IsScaleCall /\ 2 * ScaleArg.num = 3 * ScaleArg.den
    /\ clip.width = 3 /\ clip.height = 0 /\ clip.format = None
    /\ Len(invoked) = 1
    /\ invoked[1].width = Some(4) /\ invoked[1].height = Some(1)

(* C5: with subsampling factor k > 0 on an axis, m = 2^k and
   p = max(1, floor(source * scale)), the size scale() passes on that axis is
   a multiple of m, at least m, and the largest multiple of m that is <= p
   whenever p >= m; width 101, scale 0.5, k = 1 gives width 50. *)
C5_SubsampledSize ==
    ( /\ IsScaleCall /\ ScaleArg.num > 0 /\ Supported(call.kernel)
      /\ clip.format # None )
        => /\ Len(invoked) = 1
           /\ clip.format[1].subsampling_w > 0
                => AlignedTo(invoked[1].width[1], 2 ^ clip.format[1].subsampling_w,
                             FloorMin1(clip.width, ScaleArg))
           /\ clip.format[1].subsampling_h > 0
                => AlignedTo(invoked[1].height[1], 2 ^ clip.format[1].subsampling_h,
                             FloorMin1(clip.height, ScaleArg))
           /\ ( /\ clip.width = 101 /\ 2 * ScaleArg.num = ScaleArg.den
                /\ clip.format[1].subsampling_w = 1 )
                => invoked[1].width = Some(50)

C5_Witness ==
    /\ IsScaleCall /\ 2 * ScaleArg.num = ScaleArg.den
    /\ clip.width = 101 /\ clip.height = 3
    /\ clip.format # None
    /\ clip.format[1].subsampling_w = 1 /\ clip.format[1].subsampling_h = 2
    /\ Len(invoked) = 1
    /\ invoked[1].width = Some(50) /\ invoked[1].height = Some(4)

(* C6: for a supported kernel name, pixel() invokes the selected kernel with
   the same clip and exactly the width and height it was given (omitted, zero,
   negative or unaligned alike); pixel() raises only for an unknown name. *)
C6_PixelPassesThrough ==
    IsPixelCall =>
        /\ \A r \in Registered :
              CaseMatch(call.kernel, r[1])
                  => /\ outcome.kind = "return"
                     /\ invoked = << [op |-> r[2], clip |-> clip,
                                      width |-> call.width, height |-> call.height] >>
        /\ outcome.kind = "raise"
              => (~ Supported(call.kernel) /\ StartsWith(outcome.msg, UnknownKernelPrefix))

C6_Witness ==
    /\ IsPixelCall /\ call.width = Some(-1) /\ call.height = None
    /\ clip.format # None /\ clip.format[1].subsampling_w = 1
    /\ outcome.kind = "return"
    /\ Len(invoked) = 1
    /\ invoked[1].width = Some(-1) /\ invoked[1].height = None

(* C7: every call that passes validation invokes exactly one kernel once, the
   one its kernel argument selects, on the clip it was given, and returns that
   kernel's result; a call that fails validation invokes none; so the number
   of kernel invocations equals the number of calls that did not raise. *)
C7_OneInvocationPerValidCall ==
    /\ nInvoked = nCalls - nRaised
    /\ outcome.kind = "return"
          => /\ Len(invoked) = 1
             /\ invoked[1].clip = clip
             /\ \E r \in Registered :
                   CaseMatch(call.kernel, r[1]) /\ invoked[1].op = r[2]
             /\ outcome.value = Some([node |-> invoked[1]])
    /\ outcome.kind = "raise" => invoked = <<>>
    /\ outcome.kind = "none" => nCalls = 0

\* a failed call followed by a successful one
C7_Witness ==
    /\ nCalls = 2 /\ nRaised = 1 /\ nInvoked = 1
    /\ outcome.kind = "return" /\ Len(invoked) = 1

(* C8: the registry holds the same seven entries in every reachable state, and
   no call changes the registry or the width, height or format of its clip. *)
C8_RegistryAndClipFixed ==
    /\ [](/\ Len(_KERNELS) = 7
          /\ \A r \in Registered :
                \E i \in 1..Len(_KERNELS) : _KERNELS[i].key = r[1] /\ _KERNELS[i].op = r[2])
    /\ [][_KERNELS' = _KERNELS /\ clip' = clip]_vars

\* a successful call followed by a failed one, the registry as it was built
C8_Witness ==
    /\ nCalls = 2 /\ nRaised = 1 /\ nInvoked = 1
    /\ outcome.kind = "raise"
    /\ _KERNELS = KernelTable

(* C9: in scale() the scale check precedes kernel lookup: scale <= 0 with an
   unknown kernel reports 'scale must be > 0'; scale > 0 with an unknown
   kernel reports the unknown-kernel error after w and h were computed, and
   invokes no kernel. *)
C9_ScaleCheckedBeforeLookup ==
    (IsScaleCall /\ ~ Supported(call.kernel)) =>
        /\ ScaleArg.num <= 0
              => /\ RaisedValueError
                 /\ outcome.msg = ScaleErrorMsg
                 /\ ~ StartsWith(outcome.msg, UnknownKernelPrefix)
        /\ ScaleArg.num > 0
              => /\ RaisedValueError
                 /\ StartsWith(outcome.msg, UnknownKernelPrefix)
                 /\ w # None /\ h # None
                 /\ invoked = <<>>

\* scale 0.5 of a 101 x MaxDim clip with an unknown kernel: w was computed
C9_Witness ==
    /\ IsScaleCall /\ call.kernel = Spell(nearest, 1..Len(nearest))
    /\ 2 * ScaleArg.num = ScaleArg.den
    /\ StartsWith(outcome.msg, UnknownKernelPrefix)
    /\ w = Some(50) /\ h # None
    /\ invoked = <<>>

(* C10: scale() with scale = 1 keeps the size: for a clip with width >= 1 and
   height >= 1, each a multiple of 2^subsampling on its axis (or with no
   format), the kernel is invoked with the clip's own width and height. *)
C10_UnitScaleKeepsSize ==
    ( /\ IsScaleCall /\ ScaleArg.num = ScaleArg.den /\ Supported(call.kernel)
      /\ clip.width >= 1 /\ clip.height >= 1
      /\ \/ clip.format = None
         \/ /\ clip.width % (2 ^ clip.format[1].subsampling_w) = 0
            /\ clip.height % (2 ^ clip.format[1].subsampling_h) = 0 )
        => /\ Len(invoked) = 1
           /\ invoked[1].width = Some(clip.width)
           /\ invoked[1].height = Some(clip.height)

C10_Witness ==
    /\ IsScaleCall /\ ScaleArg.num = ScaleArg.den
    /\ clip.width = 4 /\ clip.height = 2
    /\ clip.format # None
    /\ clip.format[1].subsampling_w = 2 /\ clip.format[1].subsampling_h = 1
    /\ Len(invoked) = 1
    /\ invoked[1].width = Some(4) /\ invoked[1].height = Some(2)

=============================================================================
